---- MODULE Spec2Model ----
(***************************************************************************)
(* Model of streamlit_dashboard.py: the dispatch-monitoring dashboard.     *)
(*                                                                         *)
(* The script is re-executed from top to bottom every time a sidebar       *)
(* widget or the trend selectbox changes.  One action of this model is one *)
(* such widget change followed by the complete run of the script below the *)
(* widgets (lines 59-116): filter, metric cards, trend series, exception   *)
(* distribution and degrade hierarchy.  The event table df (lines 9-43) is *)
(* the snapshot the run works on; it is chosen in Init and no line of the  *)
(* script below line 43 assigns to it.  The export button (lines 119-122)  *)
(* reruns the script with the widgets as they are and writes a file from   *)
(* df_filtered: it changes nothing of this state.  The chart and table     *)
(* calls of streamlit and plotly draw what the variables hold and are not  *)
(* modelled, except that line 93 reads y.                                  *)
(*                                                                         *)
(* String values are written in ASCII:                                     *)
(*   platforms        meituan / jd / bytedance                             *)
(*   risk_modes       self / joint_lexin / joint_360                       *)
(*   approve_statuses approved / rejected / stalled                        *)
(*   exception_types  none / dispatch_failed / approval_error              *)
(*   degrade_reason   timeout / ""                                         *)
(* Timestamps are whole seconds since midnight of day 0.                   *)
(***************************************************************************)
EXTENDS Integers, Sequences, FiniteSets, TLC

VARIABLES df, start_date, end_date, platform_sel, risk_mode_sel, trend_metric,
          df_filtered, cards, trend_df, y, raised, ex_count, degrade_count

vars == <<df, start_date, end_date, platform_sel, risk_mode_sel, trend_metric,
          df_filtered, cards, trend_df, y, raised, ex_count, degrade_count>>

----------------------------------------------------------------------------
(* Bounds of the model *)

MaxLen == 2

----------------------------------------------------------------------------
(* Program constants *)

platforms == {"meituan", "jd", "bytedance"}
risk_modes == {"self", "joint_lexin", "joint_360"}

TrendOptions ==
    {"count", "total_dispatch_amount", "total_approved_amount", "approval_rate",
     "stalled_count", "degraded_count", "exception_count"}

SecondsPerMinute == 60
SecondsPerDay == 86400

----------------------------------------------------------------------------
(* Time conversions *)

\* Series.dt.date: the calendar day of a timestamp
DateOf(t) == t \div SecondsPerDay

\* Series.dt.floor('T'): the timestamp truncated to its minute
FloorMinute(t) == (t \div SecondsPerMinute) * SecondsPerMinute

----------------------------------------------------------------------------
(* The event table *)

Ev(p, t, r, d, a, s, g, x) ==
    [platform |-> p, dispatch_time |-> t, risk_mode |-> r,
     dispatch_amount |-> d, approve_amount |-> a, approve_status |-> s,
     is_degraded |-> g, degrade_reason |-> IF g = 1 THEN "timeout" ELSE "",
     exception_type |-> x]

\* Rows the generator loop can append.  approve_amount is dispatch_amount or 0
\* independently of approve_status; degrade_reason follows is_degraded.
\* The generator emits one row per minute in ascending time; the tables here
\* are all sequences over the pool, so they also hold rows that share a
\* minute and rows out of time order.
EventPool ==
    { Ev("meituan",   0,     "self",        1000, 1000, "approved", 0, "none"),
      Ev("jd",        30,    "joint_lexin", 2000, 2000, "rejected", 1, "dispatch_failed"),
      Ev("bytedance", 86400, "joint_360",   3000, 0,    "stalled",  1, "approval_error"),
      Ev("meituan",   86460, "joint_lexin", 1500, 1500, "approved", 0, "dispatch_failed") }

RECURSIVE SeqsOf(_, _)
SeqsOf(S, n) ==
    IF n = 0 THEN {<<>>}
    ELSE LET shorter == SeqsOf(S, n - 1)
         IN shorter \cup {Append(s, e) : s \in {q \in shorter : Len(q) = n - 1}, e \in S}

Tables == {t \in SeqsOf(EventPool, MaxLen) : Len(t) >= 1}

Dates == {DateOf(e.dispatch_time) : e \in EventPool}

MinOf(S) == CHOOSE m \in S : \A n \in S : m <= n
MaxOf(S) == CHOOSE m \in S : \A n \in S : n <= m

RECURSIVE SumInts(_)
SumInts(q) == IF q = <<>> THEN 0 ELSE Head(q) + SumInts(Tail(q))

RECURSIVE GCD(_, _)
GCD(a, b) == IF b = 0 THEN a ELSE GCD(b, a % b)

----------------------------------------------------------------------------
(* Data filter, lines 59-61 *)

\* variant: the end day is excluded
ByDateM(t, s, e) ==
    SelectSeq(t, LAMBDA ev : DateOf(ev.dispatch_time) >= s /\ DateOf(ev.dispatch_time) < e)

\* line 59: both ends inclusive, by calendar day
ByDate(t, s, e) ==
    SelectSeq(t, LAMBDA ev : DateOf(ev.dispatch_time) >= s /\ DateOf(ev.dispatch_time) <= e)

\* variant: an empty selection is taken as no restriction
ByPlatformM(t, sel) == SelectSeq(t, LAMBDA ev : sel = {} \/ ev.platform \in sel)

\* line 60: Series.isin(platform_sel)
ByPlatform(t, sel) == SelectSeq(t, LAMBDA ev : ev.platform \in sel)

\* line 61: Series.isin(risk_mode_sel)
ByRiskMode(t, sel) == SelectSeq(t, LAMBDA ev : ev.risk_mode \in sel)

\* line 59 indexes the full table df, never the previous df_filtered
Filter(t, s, e, ps, rs) == ByRiskMode(ByPlatform(ByDate(t, s, e), ps), rs)

----------------------------------------------------------------------------
(* Metric cards, lines 65-71 *)

Column(t, f) == [i \in 1..Len(t) |-> t[i][f]]

Approved(t) == SelectSeq(t, LAMBDA ev : ev.approve_status = "approved")
Stalled(t) == SelectSeq(t, LAMBDA ev : ev.approve_status = "stalled")
Exceptional(t) == SelectSeq(t, LAMBDA ev : ev.exception_type /= "none")

\* (Series == 'approved').mean() * 100: 0/0 on the empty Series is NaN.
\* The float is kept exact, as the reduced fraction num/den.
Mean100(t) ==
    IF Len(t) = 0 THEN [nan |-> TRUE, num |-> 0, den |-> 1]
    ELSE LET a == 100 * Len(Approved(t))
             g == GCD(a, Len(t))
         IN [nan |-> FALSE, num |-> a \div g, den |-> Len(t) \div g]

\* f"{x:.2f}%": hundredths of a percent, rounded to nearest; NaN prints "nan%"
Format2(x) ==
    IF x.nan THEN [nan |-> TRUE, hundredths |-> 0]
    ELSE [nan |-> FALSE, hundredths |-> (200 * x.num + x.den) \div (2 * x.den)]

CountCard(t) == Len(t)
DispatchAmountCard(t) == SumInts(Column(t, "dispatch_amount"))
ApprovedAmountCard(t) == SumInts(Column(Approved(t), "approve_amount"))
ApprovalRateCard(t) == Format2(Mean100(t))
StalledCard(t) == Len(Stalled(t))
DegradedCard(t) == SumInts(Column(t, "is_degraded"))
ExceptionCard(t) == Len(Exceptional(t))

Cards(t) ==
    [count |-> CountCard(t),
     total_dispatch_amount |-> DispatchAmountCard(t),
     total_approved_amount |-> ApprovedAmountCard(t),
     approval_rate |-> ApprovalRateCard(t),
     stalled_count |-> StalledCard(t),
     degraded_count |-> DegradedCard(t),
     exception_count |-> ExceptionCard(t)]

----------------------------------------------------------------------------
(* Trend series, lines 76-93 *)

\* lines 76-77: the minute column is written to a copy of df_filtered
TrendDf(t) ==
    [i \in 1..Len(t) |-> t[i] @@ [minute |-> FloorMinute(t[i].dispatch_time)]]

\* variant: no copy, the minute column lands in df_filtered itself
FilteredAfterBucketingM(t, tdf) == tdf

\* df_filtered as the lines after 77 read it: the copy keeps it as it was
FilteredAfterBucketing(t, tdf) == t

\* line 78: groupby('minute') sorts the distinct keys ascending
RECURSIVE SortedSeq(_)
SortedSeq(S) ==
    IF S = {} THEN <<>> ELSE LET m == MinOf(S) IN <<m>> \o SortedSeq(S \ {m})

GroupKeys(tdf) == SortedSeq({tdf[i].minute : i \in 1..Len(tdf)})

\* variant: a bucket also takes the rows of the earlier minutes
GroupOfM(tdf, k) == SelectSeq(tdf, LAMBDA ev : ev.minute <= k)

GroupOf(tdf, k) == SelectSeq(tdf, LAMBDA ev : ev.minute = k)

\* lines 80-92 without 84: the value one branch computes for one group
GroupValue(m, g) ==
    CASE m = "count" -> Len(g)
      [] m = "total_dispatch_amount" -> SumInts(Column(g, "dispatch_amount"))
      [] m = "approval_rate" -> Mean100(g)
      [] m = "stalled_count" -> Len(Stalled(g))
      [] m = "degraded_count" -> SumInts(Column(g, "is_degraded"))
      [] m = "exception_count" -> Len(Exceptional(g))

Series(m, tdf) ==
    LET keys == GroupKeys(tdf)
    IN [i \in 1..Len(keys) |->
          [minute |-> keys[i], value |-> GroupValue(m, GroupOf(tdf, keys[i]))]]

\* The exception a branch of lines 79-92, or line 93 after them, raises.
\* line 84 indexes the GroupBy with a boolean Series: its values are looked up
\* as column names (KeyError); on an empty frame the empty key selects no
\* column and the second index finds a selection already made (IndexError).
\* A name outside the seven branches leaves y unassigned: line 93 reads it.
TrendRaises(m, tdf) ==
    IF m = "total_approved_amount"
    THEN (IF Len(tdf) > 0 THEN "KeyError" ELSE "IndexError")
    ELSE IF m \in TrendOptions THEN "none" ELSE "NameError"

Unbound == [bound |-> FALSE, series |-> <<>>]

TrendY(m, tdf) ==
    IF TrendRaises(m, tdf) /= "none" THEN Unbound
    ELSE [bound |-> TRUE, series |-> Series(m, tdf)]

----------------------------------------------------------------------------
(* Exception distribution, lines 102-103 *)

\* variant: the rows without exception are not removed
ExDfM(t) == t

ExDf(t) == SelectSeq(t, LAMBDA ev : ev.exception_type /= "none")

\* value_counts(): one entry per value that occurs
ValueCounts(t) ==
    [x \in {t[i].exception_type : i \in 1..Len(t)} |->
        Cardinality({i \in 1..Len(t) : t[i].exception_type = x})]

NotRun == [ran |-> FALSE, state |-> "NotRun", counts |-> <<>>]

ExCount(t) == [ran |-> TRUE, state |-> "Table", counts |-> ValueCounts(ExDf(t))]

----------------------------------------------------------------------------
(* Degrade hierarchy, lines 110-116 *)

DegradeDf(t) == SelectSeq(t, LAMBDA ev : ev.is_degraded = 1)

\* groupby(['risk_mode','degrade_reason']).size()
PairCounts(t) ==
    [k \in {<<t[i].risk_mode, t[i].degrade_reason>> : i \in 1..Len(t)} |->
        Cardinality({i \in 1..Len(t) : <<t[i].risk_mode, t[i].degrade_reason>> = k})]

\* variant: no test for the empty frame
DegradeCountM(t) ==
    [ran |-> TRUE, state |-> "Chart", counts |-> PairCounts(DegradeDf(t))]

DegradeCount(t) ==
    LET d == DegradeDf(t)
    IN IF Len(d) /= 0
       THEN [ran |-> TRUE, state |-> "Chart", counts |-> PairCounts(d)]
       ELSE [ran |-> TRUE, state |-> "NoData", counts |-> <<>>]

----------------------------------------------------------------------------
(* One run of the script below the widgets *)

Run(s, e, ps, rs, m) ==
    LET f == Filter(df, s, e, ps, rs)
        tdf == TrendDf(f)
        f2 == FilteredAfterBucketing(f, tdf)
        exc == TrendRaises(m, tdf)
    IN /\ df' = df
       /\ start_date' = s
       /\ end_date' = e
       /\ platform_sel' = ps
       /\ risk_mode_sel' = rs
       /\ trend_metric' = m
       /\ cards' = Cards(f)
       /\ trend_df' = tdf
       /\ y' = TrendY(m, tdf)
       /\ raised' = exc
       /\ df_filtered' = f2
       /\ ex_count' = IF exc = "none" THEN ExCount(f2) ELSE NotRun
       /\ degrade_count' = IF exc = "none" THEN DegradeCount(f2) ELSE NotRun

\* First run: the widgets hold their defaults (lines 52-55, 75)
Init ==
    /\ df \in Tables
    /\ start_date = MinOf({DateOf(df[i].dispatch_time) : i \in 1..Len(df)})
    /\ end_date = MaxOf({DateOf(df[i].dispatch_time) : i \in 1..Len(df)})
    /\ platform_sel = platforms
    /\ risk_mode_sel = risk_modes
    /\ trend_metric = "count"
    /\ LET f == Filter(df, start_date, end_date, platform_sel, risk_mode_sel)
           tdf == TrendDf(f)
           f2 == FilteredAfterBucketing(f, tdf)
           exc == TrendRaises(trend_metric, tdf)
       IN /\ cards = Cards(f)
          /\ trend_df = tdf
          /\ y = TrendY(trend_metric, tdf)
          /\ raised = exc
          /\ df_filtered = f2
          /\ ex_count = IF exc = "none" THEN ExCount(f2) ELSE NotRun
          /\ degrade_count = IF exc = "none" THEN DegradeCount(f2) ELSE NotRun

SetStartDate ==
    \E d \in Dates \ {start_date} :
        Run(d, end_date, platform_sel, risk_mode_sel, trend_metric)

SetEndDate ==
    \E d \in Dates \ {end_date} :
        Run(start_date, d, platform_sel, risk_mode_sel, trend_metric)

Toggle(sel, x) == IF x \in sel THEN sel \ {x} ELSE sel \cup {x}

SetPlatforms ==
    \E p \in platforms :
        Run(start_date, end_date, Toggle(platform_sel, p), risk_mode_sel, trend_metric)

SetRiskModes ==
    \E r \in risk_modes :
        Run(start_date, end_date, platform_sel, Toggle(risk_mode_sel, r), trend_metric)

SelectTrendMetric ==
    \E m \in TrendOptions \ {trend_metric} :
        Run(start_date, end_date, platform_sel, risk_mode_sel, m)

Next ==
    \/ SetStartDate
    \/ SetEndDate
    \/ SetPlatforms
    \/ SetRiskModes
    \/ SelectTrendMetric

Spec == Init /\ [][Next]_vars

\* The trend aggregator asked for a name the selectbox does not offer: the
\* branches of lines 79-92 taken as a function of trend_metric
UnconfiguredNames == {"bogus_metric"}

RequestTrend ==
    \E m \in UnconfiguredNames \ {trend_metric} :
        Run(start_date, end_date, platform_sel, risk_mode_sel, m)

NextEngine ==
    \/ SetStartDate
    \/ SetEndDate
    \/ SetPlatforms
    \/ SetRiskModes
    \/ SelectTrendMetric
    \/ RequestTrend

SpecEngine == Init /\ [][NextEngine]_vars

----------------------------------------------------------------------------
(* Properties *)

Matches(e) ==
    /\ start_date <= DateOf(e.dispatch_time)
    /\ DateOf(e.dispatch_time) <= end_date
    /\ e.platform \in platform_sel
    /\ e.risk_mode \in risk_mode_sel

KeptIdx == {i \in 1..Len(df) : Matches(df[i])}

Buckets == {FloorMinute(df_filtered[i].dispatch_time) : i \in 1..Len(df_filtered)}

InBucket(k) == SelectSeq(df_filtered, LAMBDA ev : FloorMinute(ev.dispatch_time) = k)

RECURSIVE SumCounts(_, _)
SumCounts(f, S) ==
    IF S = {} THEN 0
    ELSE LET k == CHOOSE x \in S : TRUE IN f[k] + SumCounts(f, S \ {k})

\* C1: the filtered result is the order-preserving subsequence of df made of
\* exactly the rows whose day lies in [start_date, end_date] and whose platform
\* and risk mode are selected: nothing matching dropped, nothing else kept,
\* nothing duplicated or reordered.
C1_FilterExactSubsequence ==
    \E idx \in [1..Len(df_filtered) -> 1..Len(df)] :
        /\ \A i, j \in 1..Len(df_filtered) : i < j => idx[i] < idx[j]
        /\ {idx[k] : k \in 1..Len(df_filtered)} = KeptIdx
        /\ \A k \in 1..Len(df_filtered) : df_filtered[k] = df[idx[k]]

\* a row on the single selected day is kept while another row is dropped
C1_Witness ==
    /\ start_date = end_date
    /\ KeptIdx /= {}
    /\ KeptIdx /= 1..Len(df)
    /\ Len(df_filtered) >= 1

\* C2: the approval-rate card is the fraction of approved rows (as a ratio,
\* here in ten-thousandths) and is 0, not NaN, on the empty subset.
C2_ApprovalRateTotal ==
    /\ ~cards.approval_rate.nan
    /\ IF Len(df_filtered) = 0
       THEN cards.approval_rate.hundredths = 0
       ELSE LET a == Cardinality({i \in 1..Len(df_filtered) :
                                     df_filtered[i].approve_status = "approved"})
                n == Len(df_filtered)
            IN cards.approval_rate.hundredths = (20000 * a + n) \div (2 * n)

\* The scalar metric of a given name over a subset, as the cards show it
Shown(m, v) == IF m = "approval_rate" THEN Format2(v) ELSE v

\* C3: for each of the seven selectable metrics a series is emitted whose
\* value in every bucket equals the card metric of the same name over the
\* filtered rows of that bucket.
C3_TrendMatchesCards ==
    trend_metric \in TrendOptions =>
        /\ y.bound
        /\ \A k \in Buckets :
              \E i \in 1..Len(y.series) :
                 /\ y.series[i].minute = k
                 /\ Shown(trend_metric, y.series[i].value) = Cards(InBucket(k))[trend_metric]

C5_OneEntryPerBucket ==
    trend_metric \in TrendOptions =>
        /\ raised = "none"
        /\ y.bound
        /\ {y.series[i].minute : i \in 1..Len(y.series)} = Buckets
        /\ Len(y.series) = Cardinality(Buckets)
        /\ \A i, j \in 1..Len(y.series) : i < j => y.series[i].minute < y.series[j].minute

\* C6: an empty platform selection, an empty risk-mode selection or
\* start_date > end_date gives the empty result.
C6_EmptySelectionEmptyResult ==
    (platform_sel = {} \/ risk_mode_sel = {} \/ start_date > end_date)
        => df_filtered = <<>>

\* nothing selected among the platforms while every row passes the other tests
C6_Witness ==
    /\ platform_sel = {}
    /\ risk_mode_sel = risk_modes
    /\ \A i \in 1..Len(df) :
          start_date <= DateOf(df[i].dispatch_time) /\ DateOf(df[i].dispatch_time) <= end_date

\* C7: the hierarchy is the NoData signal exactly when no filtered row has
\* is_degraded = 1; otherwise it is a non-empty mapping from
\* (risk_mode, degrade_reason) pairs to counts.
C7_NoDataIffNoDegraded ==
    degrade_count.ran =>
        /\ (degrade_count.state = "NoData")
              <=> (\A i \in 1..Len(df_filtered) : df_filtered[i].is_degraded /= 1)
        /\ degrade_count.state /= "NoData" =>
              /\ degrade_count.state = "Chart"
              /\ DOMAIN degrade_count.counts /= {}
              /\ DOMAIN degrade_count.counts \subseteq
                    {<<df_filtered[i].risk_mode, df_filtered[i].degrade_reason>> :
                        i \in 1..Len(df_filtered)}

\* rows pass the filter and none of them is degraded
C7_Witness ==
    /\ degrade_count.ran
    /\ degrade_count.state = "NoData"
    /\ Len(df_filtered) >= 1

\* C8: the exception distribution has no entry for "none", every count is at
\* least 1 and the counts sum to the exception-count card; the hierarchy
\* counts sum to the degraded-count card.
C8_CountsSumToCards ==
    /\ ex_count.ran =>
          /\ "none" \notin DOMAIN ex_count.counts
          /\ \A x \in DOMAIN ex_count.counts : ex_count.counts[x] >= 1
          /\ SumCounts(ex_count.counts, DOMAIN ex_count.counts) = cards.exception_count
    /\ degrade_count.ran =>
          /\ \A k \in DOMAIN degrade_count.counts : degrade_count.counts[k] >= 1
          /\ SumCounts(degrade_count.counts, DOMAIN degrade_count.counts)
                = cards.degraded_count

\* a row without exception next to rows with one, and a degraded row
C8_Witness ==
    /\ ex_count.ran
    /\ degrade_count.ran
    /\ cards.exception_count >= 1
    /\ cards.degraded_count >= 1
    /\ \E i \in 1..Len(df_filtered) : df_filtered[i].exception_type = "none"

\* C9: the values of the count trend sum to the number of filtered rows.
C9_CountTrendSumsToLen ==
    trend_metric = "count" =>
        /\ y.bound
        /\ SumInts(Column(y.series, "value")) = Len(df_filtered)

\* two rows share one bucket: fewer entries than rows
C9_Witness ==
    /\ trend_metric = "count"
    /\ y.bound
    /\ Len(y.series) < Len(df_filtered)

WorkingSet == SelectSeq(df, Matches)

====
